---- MODULE Spec2Model ----
(***************************************************************************)
(* Model of src/index.js: the createApp orchestrator of the Express        *)
(* project scaffolder.  One run of the CLI is one behaviour: the prompt,   *)
(* the synchronous filesystem steps, the concurrent version lookups and    *)
(* the end of the process.                                                 *)
(*                                                                         *)
(* File contents are sequences of lines; the indentation the template      *)
(* literals carry in front of each line is left out, everything else is    *)
(* the text the code produces.                                             *)
(***************************************************************************)
EXTENDS Integers, Sequences, FiniteSets, TLC

(* ---------------------------------------------------------------------- *)
(* Bounds                                                                  *)
(* ---------------------------------------------------------------------- *)

\* the registry may answer any of MaxVersion different version strings
MaxVersion == 2

(* ---------------------------------------------------------------------- *)
(* State                                                                   *)
(* ---------------------------------------------------------------------- *)

VARIABLES
    pc,                     \* where createApp stands
    answer,                 \* const answer
    dirs,                   \* directories on disk
    files,                  \* regular files on disk, path |-> lines
    fs0,                    \* the disk as the run found it
    written,                \* paths writeFileSync was called on in this run
    importLines,            \* const importLines
    middlewareLines,        \* const middlewareLines
    dependenciesPromise,    \* const dependenciesPromise
    devDependenciesPromise, \* const devDependenciesPromise
    lookup,                 \* state of the promise of each package
    settled,                \* the packages in the order their lookups settled
    error,                  \* kind of the error the run failed with
    failedStep,             \* the step that failed
    logCount,               \* executions of console.log(error)
    summary,                \* the success summary was printed
    exitCode,               \* exit code of the process, -1 while it runs
    unhandledRejections     \* what the runtime does with an unhandled rejection

vars ==
    << pc, answer, dirs, files, fs0, written, importLines, middlewareLines,
       dependenciesPromise, devDependenciesPromise, lookup, settled, error,
       failedStep, logCount, summary, exitCode, unhandledRejections >>

fsVars == << dirs, files, written >>
lineVars == << importLines, middlewareLines >>
lookupVars == << dependenciesPromise, devDependenciesPromise, lookup, settled >>
runVars == << answer, fs0, unhandledRejections >>
endVars == << summary, exitCode >>

(* ---------------------------------------------------------------------- *)
(* Paths                                                                   *)
(* ---------------------------------------------------------------------- *)

\* projectDir itself, `./${projectName}`
projectDir == "."

\* the six subdirectories, in the order of the mkdirSync calls
SubDirs == <<"routes", "controllers", "utils", "middlewares", "lib", "tests">>

errorMiddlewarePath == "middlewares/error.js"
errorHandlerPath == "utils/errorHandler.js"
envPath == ".env"
appPath == "app.js"
packageJsonPath == "package.json"

FilePaths == {errorMiddlewarePath, errorHandlerPath, envPath, appPath, packageJsonPath}

\* the directory a path is written into
Parent(path) ==
    IF path = errorMiddlewarePath THEN "middlewares"
    ELSE IF path = errorHandlerPath THEN "utils"
    ELSE projectDir

Range(s) == {s[i] : i \in 1..Len(s)}

(* ---------------------------------------------------------------------- *)
(* Prompt                                                                  *)
(* ---------------------------------------------------------------------- *)

\* what the user may type for the project name: the default of line 13
ProjectNames == {"myapp"}

\* the answer records inquirer.prompt(questions) can resolve to
questions ==
    [name : ProjectNames, useCors : BOOLEAN, useErrorHandler : BOOLEAN, useEnvFile : BOOLEAN]

\* value of `answer` before the prompt has resolved
NoAnswer == [name |-> "", useCors |-> FALSE, useErrorHandler |-> FALSE, useEnvFile |-> FALSE]

(* ---------------------------------------------------------------------- *)
(* Templates                                                               *)
(* ---------------------------------------------------------------------- *)

jsErrorMiddleware ==
    << "import {envMode} from \"../app.js\"",
       "",
       "export const errorMiddleware = (err, req, res, next)=> {",
       "",
       "err.message = err.message || \"Internal Server Error\";",
       "err.statusCode = err.statusCode || 500;",
       "",
       "const response = {",
       "success: false,",
       "message: err.message,",
       "};",
       "",
       "if (envMode === \"DEVELOPMENT\") {",
       "response.error = err;",
       "}",
       "",
       "return res.status(err.statusCode).json(response);",
       "};",
       "" >>

jsErrorHandler ==
    << "export default class ErrorHandler extends Error {",
       "constructor(statusCode, message=\"something went wrong\") {",
       "super(message);",
       "this.statusCode = statusCode;",
       "}",
       "}" >>

envFileContent == << "PORT=5000" >>

expressImport == "import express from \"express\";"
corsImport == "import cors from \"cors\""
errorMiddlewareImport == "import { errorMiddleware } from \"./middlewares/error.js\""
dotenvImport == "import dotenv from \"dotenv\";"

jsonUse == "app.use(express.json());"
urlencodedUse == "app.use(express.urlencoded({extended: true}));"
corsUse == "app.use(cors({origin: '*', credentials: true}))"
errorMiddlewareUse == "app.use(errorMiddleware);"
dotenvConfig == "dotenv.config({path: './env'});"

\* importLines / middlewareLines as first declared
importLinesInit == << expressImport >>
middlewareLinesInit == << jsonUse, urlencodedUse >>

\* the pushes of lines 92-99
pushCors(ans, lines) == IF ans.useCors THEN Append(lines, corsImport) ELSE lines
pushCorsUse(ans, lines) == IF ans.useCors THEN Append(lines, corsUse) ELSE lines
\* variant: the import is pushed whatever the answer
pushErrorMiddleware_always(ans, lines) == Append(lines, errorMiddlewareImport)

pushErrorMiddleware(ans, lines) ==
    IF ans.useErrorHandler THEN Append(lines, errorMiddlewareImport) ELSE lines
\* the push of line 102
pushDotenv(ans, lines) == IF ans.useEnvFile THEN Append(lines, dotenvImport) ELSE lines

\* the template literal of lines 107-134; lines.join("\n") puts each element
\* on a line of its own
baseFileContent(ans, imports, middlewares) ==
    imports
    \o << IF ans.useEnvFile THEN dotenvConfig ELSE "",
          "export const envMode = process.env.NODE_ENV?.trim() || 'DEVELOPMENT';",
          "const port = process.env.PORT || 3000;",
          "",
          "const app = express();",
          "" >>
    \o middlewares
    \o << "",
          "app.get('/', (req,res) => {",
          "res.send(\"Hello World!\");",
          "});",
          "",
          "// your routes here",
          "",
          "app.get(\"*\", (req, res) => {",
          "res.status(404).json({",
          "success: false,",
          "message: 'page not found'",
          "})",
          "});",
          "",
          IF ans.useErrorHandler THEN errorMiddlewareUse ELSE "",
          "",
          "app.listen(port, ()=> {",
          "console.log('Server is working on port:'+port+' in '+envMode+' Mode. ')",
          "});",
          "" >>

(* ---------------------------------------------------------------------- *)
(* Version lookups and the manifest                                        *)
(* ---------------------------------------------------------------------- *)

Pkgs == {"express", "cors", "dotenv", "nodemon"}

\* the version strings the registry may report as latest
VersionOf(i) == ToString(i) \o ".0.0"
Versions == {VersionOf(i) : i \in 1..MaxVersion}

\* a lookup not issued, in flight, rejected, or resolved to a descriptor
Idle == [state |-> "idle", version |-> ""]
Pending == [state |-> "pending", version |-> ""]
Rejected == [state |-> "rejected", version |-> ""]
Resolved(v) == [state |-> "resolved", version |-> v]

\* getLatestVersion(p): the promise of the descriptor {name, version}
getLatestVersion(lk, p) == [lk EXCEPT ![p] = Pending]

\* variant: the cors lookup is issued whatever the answer
dependenciesPromiseOf_alwaysCors(ans) ==
    IF ans.useEnvFile THEN << "express", "cors", "dotenv" >> ELSE << "express", "cors" >>

\* lines 138-141: the promises of the dependencies batch, in issue order
dependenciesPromiseOf(ans) ==
    LET base == << "express" >>
        withCors == IF ans.useCors THEN Append(base, "cors") ELSE base
    IN  IF ans.useEnvFile THEN Append(withCors, "dotenv") ELSE withCors

\* line 143
devDependenciesPromiseOf == << "nodemon" >>

\* Promise.all(batch) is fulfilled: every promise of the batch is
AllFulfilled(batch, lk) == \A i \in 1..Len(batch) : lk[batch[i]].state = "resolved"

\* Promise.all(batch) is rejected: some promise of the batch is
AnyRejected(batch, lk) == \E i \in 1..Len(batch) : lk[batch[i]].state = "rejected"

\* variant: the descriptors in the order the lookups settled, as when each
\* lookup pushes its result to a shared array
PromiseAll_completionOrder(batch, lk) ==
    LET order == SelectSeq(settled, LAMBDA p : p \in Range(batch))
    IN  [i \in 1..Len(order) |-> [name |-> order[i], version |-> lk[order[i]].version]]

\* the value Promise.all(batch) is fulfilled with: the descriptors in the
\* order of the batch, whatever the order of completion
PromiseAll(batch, lk) ==
    [i \in 1..Len(batch) |-> [name |-> batch[i], version |-> lk[batch[i]].version]]

\* lines 148-149: `"${dependency.name}": "${dependency.version}"`
renderDependency(d) == "\"" \o d.name \o "\": \"" \o d.version \o "\""
mapDependencies(raw) == [i \in 1..Len(raw) |-> renderDependency(raw[i])]

\* Array.prototype.join
RECURSIVE join(_, _)
join(s, sep) ==
    IF Len(s) = 0 THEN ""
    ELSE IF Len(s) = 1 THEN s[1]
    ELSE s[1] \o sep \o join(Tail(s), sep)

\* lines 151-154
npmScriptjs ==
    "{\"start\":\"set NODE_ENV=PRODUCTION & node app.js\",\"dev\":\"npx nodemon app.js\"}"

\* lines 156-172
packageJsonContent(projectName, dependecies, devDependecies) ==
    << "{",
       "\"name\": \"" \o projectName \o "\",",
       "\"version\": \"1.0.0\",",
       "\"description\": \"\",",
       "\"main\": \"app.js\",",
       "\"scripts\": " \o npmScriptjs \o ",",
       "\"keywords\": [],",
       "\"author\": \"\",",
       "\"type\": \"module\",",
       "\"license\": \"ISC\",",
       "\"dependencies\": {",
       join(dependecies, ","),
       "},",
       "\"devDependencies\": {",
       join(devDependecies, ","),
       "},",
       "}" >>

(* ---------------------------------------------------------------------- *)
(* Filesystem                                                              *)
(* ---------------------------------------------------------------------- *)

\* a file left by something else before the run
OldContent == << "old" >>

EmptyFiles == [p \in {} |-> << >>]

Put(fl, path, content) ==
    [p \in DOMAIN fl \cup {path} |-> IF p = path THEN content ELSE fl[p]]

\* fs.existsSync: true of a directory and of a regular file alike
existsSync(d, fl, path) == path \in d \/ path \in DOMAIN fl

\* variant: the write never misses its parent directory, as a write that
\* creates it would
writeFileSync_recursive(d, fl, path, content) ==
    {[err |-> "none", files |-> Put(fl, path, content)],
     [err |-> "EIO", files |-> fl],
     [err |-> "EIO", files |-> Put(fl, path, << >>)]}

\* fs.writeFileSync(path, content): the error it throws and the files it
\* leaves.  Without the parent directory it throws ENOENT (ENOTDIR when the
\* project path is a regular file) and touches nothing; otherwise it
\* replaces the file, or fails on the device (permission, disk full) and
\* leaves the file as it was or truncated.
writeFileSync(d, fl, path, content) ==
    IF Parent(path) \notin d
    THEN {[err |-> "ENOENT", files |-> fl]}
    ELSE {[err |-> "none", files |-> Put(fl, path, content)],
          [err |-> "EIO", files |-> fl],
          [err |-> "EIO", files |-> Put(fl, path, << >>)]}

\* the seven mkdirSync calls of lines 72-78, in order
mkdirOrder == << projectDir >> \o SubDirs

\* the subdirectories a project directory may hold before the run: any of
\* the two that files are written into, with none, one or all of the rest
InitialSubDirs ==
    {U \cup O : U \in SUBSET {"utils", "middlewares"},
                O \in {{}, {"routes"}, {"routes", "controllers", "lib", "tests"}}}

\* the filesystems a run may start on: no project path, a regular file at
\* the project path, a project directory holding some subdirectories and no
\* file, or one that also holds an old copy of every file whose directory
\* is there (as an earlier run leaves it)
InitialFs ==
    {[dirs |-> {}, files |-> EmptyFiles],
     [dirs |-> {}, files |-> Put(EmptyFiles, projectDir, OldContent)]}
    \cup
    {[dirs |-> {projectDir} \cup S, files |-> EmptyFiles] : S \in InitialSubDirs}
    \cup
    {[dirs |-> {projectDir} \cup S,
      files |-> [p \in {q \in FilePaths : Parent(q) \in {projectDir} \cup S} |-> OldContent]] :
        S \in {T \in InitialSubDirs : "routes" \in T /\ "tests" \in T}}

(* ---------------------------------------------------------------------- *)
(* Initial state                                                           *)
(* ---------------------------------------------------------------------- *)

\* Node terminates the process on an unhandled rejection since version 15
\* and only warns before that (or under --unhandled-rejections=warn)
RejectionModes == {"throw", "warn"}

Init ==
    /\ pc = "prompt"
    /\ answer = NoAnswer
    /\ fs0 \in InitialFs
    /\ dirs = fs0.dirs
    /\ files = fs0.files
    /\ written = {}
    /\ importLines = << >>
    /\ middlewareLines = << >>
    /\ dependenciesPromise = << >>
    /\ devDependenciesPromise = << >>
    /\ lookup = [p \in Pkgs |-> Idle]
    /\ settled = << >>
    /\ error = "none"
    /\ failedStep = "none"
    /\ logCount = 0
    /\ summary = FALSE
    /\ exitCode = -1
    /\ unhandledRejections \in RejectionModes

(* ---------------------------------------------------------------------- *)
(* createApp                                                               *)
(* ---------------------------------------------------------------------- *)

\* the step goes on to the next one
Continue(next) ==
    /\ pc' = next
    /\ UNCHANGED << error, failedStep, logCount >>

\* lines 190-192: the throw lands in the catch, which logs the error; the
\* function then returns
Catch(kind, step) ==
    /\ pc' = "returned"
    /\ error' = kind
    /\ failedStep' = step
    /\ logCount' = logCount + 1

\* line 65: the prompt resolves to an answer record
PromptResolve ==
    /\ pc = "prompt"
    /\ \E a \in questions : answer' = a
    /\ Continue("dirs")
    /\ UNCHANGED << fs0, unhandledRejections, fsVars, lineVars, lookupVars, endVars >>

\* variant: the rejection is logged and the run goes on with the defaults
PromptReject_defaults ==
    /\ pc = "prompt"
    /\ answer' = [name |-> "myapp", useCors |-> FALSE, useErrorHandler |-> TRUE,
                  useEnvFile |-> TRUE]
    /\ pc' = "dirs"
    /\ error' = "prompt"
    /\ failedStep' = "collect"
    /\ logCount' = logCount + 1
    /\ UNCHANGED << fs0, unhandledRejections, fsVars, lineVars, lookupVars, endVars >>

\* line 65: the prompt rejects (end of input, cancelled)
PromptReject ==
    /\ pc = "prompt"
    /\ Catch("prompt", "collect")
    /\ UNCHANGED << runVars, fsVars, lineVars, lookupVars, endVars >>

\* variant: the subdirectories missing from an existing project are created
SkipDirs_recreate ==
    /\ pc = "dirs"
    /\ existsSync(dirs, files, projectDir)
    /\ dirs' = dirs \cup Range(mkdirOrder)
    /\ Continue("errfiles")
    /\ UNCHANGED << runVars, files, written, lineVars, lookupVars, endVars >>

\* lines 71-79, the project path exists: nothing is created
SkipDirs ==
    /\ pc = "dirs"
    /\ existsSync(dirs, files, projectDir)
    /\ Continue("errfiles")
    /\ UNCHANGED << runVars, fsVars, lineVars, lookupVars, endVars >>

\* lines 71-79, the project path does not exist: the seven mkdirSync calls
\* run in order; the first k succeed and, when k < 7, the next one throws
MakeDirs ==
    /\ pc = "dirs"
    /\ ~existsSync(dirs, files, projectDir)
    /\ \E k \in 0..Len(mkdirOrder) :
        /\ dirs' = dirs \cup {mkdirOrder[i] : i \in 1..k}
        /\ IF k = Len(mkdirOrder) THEN Continue("errfiles") ELSE Catch("EIO", "dirs")
    /\ UNCHANGED << runVars, files, written, lineVars, lookupVars, endVars >>

\* lines 81-84
WriteErrorFiles ==
    /\ pc = "errfiles"
    /\ IF ~answer.useErrorHandler
       THEN /\ Continue("lines")
            /\ UNCHANGED << files, written >>
       ELSE \E r1 \in writeFileSync(dirs, files, errorMiddlewarePath, jsErrorMiddleware) :
            IF r1.err # "none"
            THEN /\ files' = r1.files
                 /\ written' = written \cup {errorMiddlewarePath}
                 /\ Catch(r1.err, "errfiles")
            ELSE \E r2 \in writeFileSync(dirs, r1.files, errorHandlerPath, jsErrorHandler) :
                 /\ files' = r2.files
                 /\ written' = written \cup {errorMiddlewarePath, errorHandlerPath}
                 /\ IF r2.err = "none" THEN Continue("lines") ELSE Catch(r2.err, "errfiles")
    /\ UNCHANGED << runVars, dirs, lineVars, lookupVars, endVars >>

\* variant: the error-middleware import is pushed before the cors import
BuildLines_errorBeforeCors ==
    /\ pc = "lines"
    /\ importLines' = pushCors(answer, pushErrorMiddleware(answer, importLinesInit))
    /\ middlewareLines' = pushCorsUse(answer, middlewareLinesInit)
    /\ Continue("env")
    /\ UNCHANGED << runVars, fsVars, lookupVars, endVars >>

\* lines 86-99
BuildLines ==
    /\ pc = "lines"
    /\ importLines' = pushErrorMiddleware(answer, pushCors(answer, importLinesInit))
    /\ middlewareLines' = pushCorsUse(answer, middlewareLinesInit)
    /\ Continue("env")
    /\ UNCHANGED << runVars, fsVars, lookupVars, endVars >>

\* lines 101-105
WriteEnvFile ==
    /\ pc = "env"
    /\ importLines' = pushDotenv(answer, importLines)
    /\ IF ~answer.useEnvFile
       THEN /\ Continue("app")
            /\ UNCHANGED << files, written >>
       ELSE \E r \in writeFileSync(dirs, files, envPath, envFileContent) :
            /\ files' = r.files
            /\ written' = written \cup {envPath}
            /\ IF r.err = "none" THEN Continue("app") ELSE Catch(r.err, "env")
    /\ UNCHANGED << runVars, dirs, middlewareLines, lookupVars, endVars >>

\* lines 107-136
WriteApp ==
    /\ pc = "app"
    /\ \E r \in writeFileSync(dirs, files, appPath,
                              baseFileContent(answer, importLines, middlewareLines)) :
        /\ files' = r.files
        /\ written' = written \cup {appPath}
        /\ IF r.err = "none" THEN Continue("issue") ELSE Catch(r.err, "app")
    /\ UNCHANGED << runVars, dirs, lineVars, lookupVars, endVars >>

\* every lookup of the two batches is put in flight
issue(batches, lk) ==
    [p \in Pkgs |-> IF p \in Range(batches) THEN getLatestVersion(lk, p)[p] ELSE lk[p]]

\* lines 138-145: both batches are issued, then createApp awaits
\* Promise.all(dependenciesPromise); nothing awaits the nodemon promise yet
IssueLookups ==
    /\ pc = "issue"
    /\ dependenciesPromise' = dependenciesPromiseOf(answer)
    /\ devDependenciesPromise' = devDependenciesPromiseOf
    /\ lookup' = issue(dependenciesPromiseOf(answer) \o devDependenciesPromiseOf, lookup)
    /\ Continue("awaitDeps")
    /\ UNCHANGED << runVars, fsVars, lineVars, settled, endVars >>

\* a rejection of promise p has a handler: Promise.all(dependenciesPromise)
\* is called at line 145 as soon as the lookups are issued,
\* Promise.all(devDependenciesPromise) only at line 146, once the
\* dependencies batch is fulfilled
Handled(p, at) ==
    \/ p \in Range(dependenciesPromise)
    \/ p \in Range(devDependenciesPromise) /\ at = "awaitDev"

\* variant: the awaits resume once their batch has settled, rejected or not
\* (Promise.allSettled)
Resume_allSettled(at, lk) ==
    LET settledBatch(batch) == \A i \in 1..Len(batch) : lk[batch[i]].state # "pending"
    IN  IF at = "awaitDeps"
        THEN IF ~settledBatch(dependenciesPromise) THEN "awaitDeps"
             ELSE IF ~settledBatch(devDependenciesPromise) THEN "awaitDev"
             ELSE "manifest"
        ELSE IF at = "awaitDev"
        THEN IF ~settledBatch(devDependenciesPromise) THEN "awaitDev" ELSE "manifest"
        ELSE at

\* where createApp stands once the promises are as in lk: line 145 resumes
\* when the dependencies batch is fulfilled, line 146 when the
\* devDependencies batch is; a rejected batch throws at its await
Resume(at, lk) ==
    IF at = "awaitDeps"
    THEN IF AnyRejected(dependenciesPromise, lk) THEN "throw"
         ELSE IF ~AllFulfilled(dependenciesPromise, lk) THEN "awaitDeps"
         ELSE IF AnyRejected(devDependenciesPromise, lk) THEN "throw"
         ELSE IF ~AllFulfilled(devDependenciesPromise, lk) THEN "awaitDev"
         ELSE "manifest"
    ELSE IF at = "awaitDev"
    THEN IF AnyRejected(devDependenciesPromise, lk) THEN "throw"
         ELSE IF ~AllFulfilled(devDependenciesPromise, lk) THEN "awaitDev"
         ELSE "manifest"
    ELSE at

InFlight == pc \in {"awaitDeps", "awaitDev", "returned"}

\* a lookup in flight resolves to a version
LookupResolve(p, v) ==
    /\ InFlight
    /\ lookup[p] = Pending
    /\ lookup' = [lookup EXCEPT ![p] = Resolved(v)]
    /\ settled' = Append(settled, p)
    /\ IF Resume(pc, lookup') = "throw"
       THEN Catch("lookup", "resolve")
       ELSE Continue(Resume(pc, lookup'))
    /\ UNCHANGED << runVars, fsVars, lineVars, dependenciesPromise,
                    devDependenciesPromise, endVars >>

\* a lookup in flight rejects and its rejection has a handler
LookupReject(p) ==
    /\ InFlight
    /\ lookup[p] = Pending
    /\ Handled(p, pc)
    /\ lookup' = [lookup EXCEPT ![p] = Rejected]
    /\ settled' = Append(settled, p)
    /\ IF Resume(pc, lookup') = "throw"
       THEN Catch("lookup", "resolve")
       ELSE Continue(Resume(pc, lookup'))
    /\ UNCHANGED << runVars, fsVars, lineVars, dependenciesPromise,
                    devDependenciesPromise, endVars >>

\* a lookup in flight rejects and nothing handles the rejection: the runtime
\* either ends the process with exit code 1, or warns and goes on
LookupRejectUnhandled(p) ==
    /\ InFlight
    /\ lookup[p] = Pending
    /\ ~Handled(p, pc)
    /\ lookup' = [lookup EXCEPT ![p] = Rejected]
    /\ settled' = Append(settled, p)
    /\ IF unhandledRejections = "throw"
       THEN /\ pc' = "crashed"
            /\ exitCode' = 1
            /\ error' = IF error = "none" THEN "lookup" ELSE error
            /\ failedStep' = IF failedStep = "none" THEN "resolve" ELSE failedStep
            /\ UNCHANGED logCount
       ELSE /\ Continue(pc)
            /\ UNCHANGED exitCode
    /\ UNCHANGED << runVars, fsVars, lineVars, dependenciesPromise,
                    devDependenciesPromise, summary >>

\* lines 145-174
WriteManifest ==
    /\ pc = "manifest"
    /\ LET dependeciesRaw == PromiseAll(dependenciesPromise, lookup)
           devDependenciesRaw == PromiseAll(devDependenciesPromise, lookup)
           dependecies == mapDependencies(dependeciesRaw)
           devDependecies == mapDependencies(devDependenciesRaw)
       IN  \E r \in writeFileSync(dirs, files, packageJsonPath,
                                  packageJsonContent(answer.name, dependecies, devDependecies)) :
            /\ files' = r.files
            /\ written' = written \cup {packageJsonPath}
            /\ IF r.err = "none" THEN Continue("summary") ELSE Catch(r.err, "manifest")
    /\ UNCHANGED << runVars, dirs, lineVars, lookupVars, endVars >>

\* lines 176-188
PrintSummary ==
    /\ pc = "summary"
    /\ summary' = TRUE
    /\ Continue("returned")
    /\ UNCHANGED << runVars, fsVars, lineVars, lookupVars, exitCode >>

\* lines 195-197: createApp has returned, its promise is fulfilled (the
\* .catch never runs) and the process ends once no lookup is in flight
Exit ==
    /\ pc = "returned"
    /\ \A p \in Pkgs : lookup[p] # Pending
    /\ pc' = "exited"
    /\ exitCode' = 0
    /\ UNCHANGED << runVars, fsVars, lineVars, lookupVars, error, failedStep,
                    logCount, summary >>

Next ==
    \/ PromptResolve
    \/ PromptReject
    \/ SkipDirs
    \/ MakeDirs
    \/ WriteErrorFiles
    \/ BuildLines
    \/ WriteEnvFile
    \/ WriteApp
    \/ IssueLookups
    \/ \E p \in Pkgs, v \in Versions : LookupResolve(p, v)
    \/ \E p \in Pkgs : LookupReject(p)
    \/ \E p \in Pkgs : LookupRejectUnhandled(p)
    \/ WriteManifest
    \/ PrintSummary
    \/ Exit

Spec == Init /\ [][Next]_vars

TypeOK ==
    /\ pc \in {"prompt", "dirs", "errfiles", "lines", "env", "app", "issue", "awaitDeps",
               "awaitDev", "manifest", "summary", "returned", "exited", "crashed"}
    /\ answer \in questions \cup {NoAnswer}
    /\ dirs \subseteq Range(mkdirOrder)
    /\ DOMAIN files \subseteq FilePaths \cup {projectDir}
    /\ written \subseteq FilePaths
    /\ Range(settled) \subseteq Pkgs
    /\ error \in {"none", "prompt", "ENOENT", "EIO", "lookup"}
    /\ failedStep \in {"none", "collect", "dirs", "errfiles", "env", "app", "resolve", "manifest"}
    /\ logCount \in 0..2
    /\ exitCode \in {-1, 0, 1}

(* ---------------------------------------------------------------------- *)
(* Vocabulary of the properties                                            *)
(* ---------------------------------------------------------------------- *)

Failed == error # "none"

\* createApp ran to its end without an error
Succeeded == pc \in {"returned", "exited"} /\ error = "none"

ProcessEnded == pc \in {"exited", "crashed"}

\* the lookups put in flight by this run
Issued == Range(dependenciesPromise) \cup Range(devDependenciesPromise)

\* the path holds what it held before the run
SameAsBefore(path) ==
    IF path \in DOMAIN fs0.files
    THEN path \in DOMAIN files /\ files[path] = fs0.files[path]
    ELSE path \notin DOMAIN files

\* the steps of the orchestrator, in order
StepOrder == << "collect", "dirs", "errfiles", "env", "app", "resolve", "manifest" >>
StepIndex(step) == CHOOSE i \in 1..Len(StepOrder) : StepOrder[i] = step

\* the files a step writes under the answers given
WritesOf(step) ==
    IF step = "errfiles" /\ answer.useErrorHandler THEN {errorMiddlewarePath, errorHandlerPath}
    ELSE IF step = "env" /\ answer.useEnvFile THEN {envPath}
    ELSE IF step = "app" THEN {appPath}
    ELSE IF step = "manifest" THEN {packageJsonPath}
    ELSE {}

\* "name": "version" of package p as its lookup resolved
Entry(p) == "\"" \o p \o "\": \"" \o lookup[p].version \o "\""

\* the dependencies the answers select, in the order express, cors, dotenv
ExpectedDependencies ==
    IF answer.useCors /\ answer.useEnvFile
    THEN Entry("express") \o "," \o Entry("cors") \o "," \o Entry("dotenv")
    ELSE IF answer.useCors THEN Entry("express") \o "," \o Entry("cors")
    ELSE IF answer.useEnvFile THEN Entry("express") \o "," \o Entry("dotenv")
    ELSE Entry("express")

ExpectedPkgs ==
    {"express", "nodemon"}
    \cup (IF answer.useCors THEN {"cors"} ELSE {})
    \cup (IF answer.useEnvFile THEN {"dotenv"} ELSE {})

\* the lines of package.json that hold the two dependency maps
DependenciesLine == 12
DevDependenciesLine == 15

(* ---------------------------------------------------------------------- *)
(* Properties                                                              *)
(* ---------------------------------------------------------------------- *)

\* C1: once a version lookup of either batch has failed, the run never
\* writes package.json: writeFileSync is not called on it, createApp never
\* reaches the manifest step, and the path holds what it held before.
FailedLookupWritesNoManifest ==
    (\E p \in Pkgs : lookup[p].state = "rejected")
        => /\ packageJsonPath \notin written
           /\ pc \notin {"manifest", "summary"}
           /\ SameAsBefore(packageJsonPath)
           /\ ~summary

\* C1 witness: the cors lookup failed while express and nodemon resolved,
\* and the process has ended.
FailedLookupRunEnded ==
    /\ pc = "exited"
    /\ lookup["cors"].state = "rejected"
    /\ lookup["express"].state = "resolved"
    /\ lookup["nodemon"].state = "resolved"

\* C2: when the process has ended, a failed run has printed its error and
\* the exit code is non-zero; the exit code is zero only after a run without
\* error.
FailureExitsNonZero ==
    ProcessEnded =>
        /\ Failed => (logCount > 0 \/ pc = "crashed") /\ exitCode # 0
        /\ exitCode = 0 => ~Failed

\* C3: when the project directory exists at the start of the run, the
\* directory step raises no error and the directories on disk stay exactly
\* those found; directories change only in a run that found no project path.
ExistingRootCreatesNothing ==
    /\ projectDir \in fs0.dirs => dirs = fs0.dirs /\ failedStep # "dirs"
    /\ dirs # fs0.dirs => ~existsSync(fs0.dirs, fs0.files, projectDir)

\* C3 witness: a run on an existing project directory without middlewares/
\* went past the directory step and succeeded.
ExistingRootRunSucceeded ==
    /\ projectDir \in fs0.dirs
    /\ "middlewares" \notin fs0.dirs
    /\ "routes" \notin fs0.dirs
    /\ Succeeded
    /\ pc = "exited"

\* the part of C4 about the disk and the summary: after a failure no step
\* later than the failed one has called writeFileSync, the summary is not
\* printed, and what the earlier steps created is on disk as they left it.
AbortWithoutRollback ==
    Failed =>
        /\ ~summary
        /\ written \subseteq UNION {WritesOf(StepOrder[i]) : i \in 1..StepIndex(failedStep)}
        /\ \A i \in 1..(StepIndex(failedStep) - 1) :
            \A path \in WritesOf(StepOrder[i]) :
                /\ path \in DOMAIN files
                /\ files[path] =
                     (IF path = errorMiddlewarePath THEN jsErrorMiddleware
                      ELSE IF path = errorHandlerPath THEN jsErrorHandler
                      ELSE IF path = envPath THEN envFileContent
                      ELSE baseFileContent(answer, importLines, middlewareLines))
        /\ \A path \in FilePaths \ written : SameAsBefore(path)
        /\ fs0.dirs \subseteq dirs
        /\ (StepIndex(failedStep) > 2 /\ ~existsSync(fs0.dirs, fs0.files, projectDir))
               => dirs = Range(mkdirOrder)
        /\ StepIndex(failedStep) < StepIndex("resolve") => \A p \in Pkgs : lookup[p] = Idle

\* C4: the orchestrator aborts on the first failure without rollback, and
\* the error is logged exactly once.
AbortLogsOnce ==
    /\ AbortWithoutRollback
    /\ Failed => logCount = 1

\* C5: when the prompt fails, the disk is exactly as the run found it: no
\* directory is created, writeFileSync is never called, no lookup is issued.
PromptFailureWritesNothing ==
    error = "prompt" =>
        /\ dirs = fs0.dirs
        /\ files = fs0.files
        /\ written = {}
        /\ \A p \in Pkgs : lookup[p] = Idle
        /\ pc \in {"returned", "exited"}

\* C5 witness: the prompt failed and the process has ended.
PromptFailureRunEnded == error = "prompt" /\ pc = "exited" /\ logCount = 1

\* C6: with useErrorHandler = false the entry-point file holds neither the
\* error-middleware import nor its registration, and the run calls
\* writeFileSync on neither error file.
NoErrorHandlerNoErrorFiles ==
    ~answer.useErrorHandler =>
        /\ errorMiddlewarePath \notin written /\ SameAsBefore(errorMiddlewarePath)
        /\ errorHandlerPath \notin written /\ SameAsBefore(errorHandlerPath)
        /\ \A i \in 1..Len(importLines) : importLines[i] # errorMiddlewareImport
        /\ (appPath \in written /\ appPath \in DOMAIN files) =>
               \A i \in 1..Len(files[appPath]) :
                   files[appPath][i] \notin {errorMiddlewareImport, errorMiddlewareUse}

\* C6 witness: a run with useErrorHandler = false and the other two options
\* set has written the entry-point file and succeeded.
NoErrorHandlerRunSucceeded ==
    /\ Succeeded
    /\ ~answer.useErrorHandler /\ answer.useCors /\ answer.useEnvFile
    /\ Len(files[appPath]) > 20

ImportOrder == << expressImport, corsImport, errorMiddlewareImport, dotenvImport >>

ImportEnabled(line) ==
    \/ line = expressImport
    \/ line = corsImport /\ answer.useCors
    \/ line = errorMiddlewareImport /\ answer.useErrorHandler
    \/ line = dotenvImport /\ answer.useEnvFile

\* createApp is past line 105, so both lists are complete
LinesBuilt ==
    /\ pc \notin {"prompt", "dirs", "errfiles", "lines", "env"}
    /\ failedStep \notin {"collect", "dirs", "errfiles"}

\* C7: once built, the import lines are the sequence framework, cors,
\* error-middleware, env-loader restricted to the enabled entries, and the
\* middleware lines are json, urlencoded, then the cors registration exactly
\* when useCors; the entry-point file starts with the import lines.
LinesInFixedOrder ==
    LinesBuilt =>
        /\ importLines = SelectSeq(ImportOrder, ImportEnabled)
        /\ middlewareLines =
             (IF answer.useCors THEN << jsonUse, urlencodedUse, corsUse >>
              ELSE << jsonUse, urlencodedUse >>)
        /\ answer.useCors =>
             /\ importLines[1] = expressImport
             /\ importLines[2] = corsImport
             /\ \A i \in 1..Len(importLines) : importLines[i] = dotenvImport => i > 2
             /\ middlewareLines[3] = corsUse
        /\ (appPath \in written /\ failedStep # "app") =>
             SubSeq(files[appPath], 1, Len(importLines)) = importLines

\* C7 witness: all three options set, the lists built and the file written.
AllOptionsLinesBuilt ==
    /\ LinesBuilt
    /\ answer.useCors /\ answer.useErrorHandler /\ answer.useEnvFile
    /\ Len(importLines) = 4
    /\ appPath \in written /\ failedStep # "app"

\* C8: a successful run has called writeFileSync on exactly the files the
\* answers select, each holds its content, every other file is untouched,
\* and the manifest lists exactly express, cors when useCors, dotenv when
\* useEnvFile, each with the version its lookup returned, and nodemon alone
\* under devDependencies.
SuccessWritesSelectedOutputs ==
    Succeeded =>
        /\ summary
        /\ written =
             {appPath, packageJsonPath}
             \cup (IF answer.useEnvFile THEN {envPath} ELSE {})
             \cup (IF answer.useErrorHandler
                   THEN {errorMiddlewarePath, errorHandlerPath} ELSE {})
        /\ \A path \in FilePaths \ written : SameAsBefore(path)
        /\ written \subseteq DOMAIN files
        /\ answer.useEnvFile => files[envPath] = << "PORT=5000" >>
        /\ answer.useErrorHandler =>
             /\ files[errorMiddlewarePath] = jsErrorMiddleware
             /\ files[errorHandlerPath] = jsErrorHandler
        /\ files[packageJsonPath][DependenciesLine] = ExpectedDependencies
        /\ files[packageJsonPath][DevDependenciesLine] = Entry("nodemon")
        /\ \A p \in Pkgs :
             IF p \in ExpectedPkgs THEN lookup[p].version \in Versions ELSE lookup[p] = Idle

\* C8 witness: a successful run with cors and the env file but no error
\* handler, where express and cors resolved to different versions.
MixedOptionsRunSucceeded ==
    /\ Succeeded
    /\ answer.useCors /\ ~answer.useErrorHandler /\ answer.useEnvFile
    /\ lookup["express"].version # lookup["cors"].version

\* C9: createApp reaches the manifest step only when every lookup of both
\* batches has resolved, whatever the order in which they settled, and the
\* manifest written is the one rendered from the answers and the resolved
\* versions in issue order.
ManifestOnlyAfterAllResolved ==
    (pc \in {"manifest", "summary"} \/ packageJsonPath \in written) =>
        /\ Issued = ExpectedPkgs
        /\ \A p \in Issued : lookup[p].state = "resolved"
        /\ Range(settled) = Issued
        /\ (packageJsonPath \in written /\ failedStep # "manifest") =>
             files[packageJsonPath] =
                 packageJsonContent(answer.name, << ExpectedDependencies >>,
                                    << Entry("nodemon") >>)

\* C9 witness: the manifest was written in a run where nodemon settled
\* first and express last, the reverse of the issue order.
ManifestAfterReverseCompletion ==
    /\ Succeeded
    /\ Len(settled) = 4
    /\ settled[1] = "nodemon"
    /\ settled[2] = "dotenv"
    /\ settled[4] = "express"

\* C10: on an existing project directory that lacks middlewares/ or utils/,
\* a run with useErrorHandler fails at the error-file step: writeFileSync is
\* called on neither app.js, package.json nor .env and no lookup is issued;
\* a run without useErrorHandler on an existing project directory never
\* fails for a missing directory.
MissingSubdirFailsErrorFiles ==
    /\ (/\ projectDir \in fs0.dirs
        /\ "middlewares" \notin fs0.dirs \/ "utils" \notin fs0.dirs
        /\ answer.useErrorHandler
        /\ pc \notin {"prompt", "dirs", "errfiles"})
       => /\ failedStep = "errfiles"
          /\ pc \in {"returned", "exited"}
          /\ written \cap {appPath, packageJsonPath, envPath} = {}
          /\ \A path \in {appPath, packageJsonPath, envPath} : SameAsBefore(path)
          /\ \A p \in Pkgs : lookup[p] = Idle
    /\ (projectDir \in fs0.dirs /\ ~answer.useErrorHandler) => error # "ENOENT"

\* C10 witness: such a run ended on the missing middlewares/ directory.
MissingMiddlewaresRunEnded ==
    /\ projectDir \in fs0.dirs
    /\ "middlewares" \notin fs0.dirs
    /\ answer.useErrorHandler
    /\ error = "ENOENT"
    /\ pc = "exited"

====
